---- MODULE Spec2Model ----
(***************************************************************************)
(* Model of anthem_ny_ppo_scraper.py: the streaming pass over the index    *)
(* file (stream_index_file), the description predicate                     *)
(* (is_ny_ppo_network), the file identity (extract_file_id), the           *)
(* aggregation loop and the report writer of main.                         *)
(*                                                                         *)
(* A Python str is a sequence of one-character strings, so that "in",      *)
(* split, upper and sorted act on characters as they do in the code.       *)
(* A Python dict is a sequence of [key, value] entries in insertion order. *)
(* A JSON object read from the index is a TLA+ record holding the keys     *)
(* the object has.                                                         *)
(***************************************************************************)
EXTENDS Integers, Sequences, FiniteSets, TLC

VARIABLES
  pc,                  \* position of the run: see Next
  response,            \* the connection of urlopen: "unopened", "open", "closed"
  gz_file,             \* the GzipFile handle: "unopened", "open", "closed"
  closed,              \* the handles in the order their close ran
  processed,           \* main: processed
  file_ids_by_network, \* main: network -> {file_id: sample_url}
  in_network_files,    \* is_ny_ppo_network: its argument, in the predicate pass
  is_match,            \* is_ny_ppo_network: first component of its result
  matching_files,      \* is_ny_ppo_network: second component of its result
  item,                \* main: the item of the for loop
  repeat,              \* the stream: item is the same record as the one before it
  file_ids,            \* results of extract_file_id, in the file identity pass
  output_opened,       \* open(args.output, 'w') has created or truncated the file
  output,              \* what has been written to args.output
  failure              \* the exception that ended the run, or "none"

vars == <<pc, response, gz_file, closed, processed, file_ids_by_network, item, repeat,
          in_network_files, is_match, matching_files, file_ids, output_opened, output,
          failure>>

(***************************************************************************)
(* Bounds of the model.                                                    *)
(***************************************************************************)
MaxRecords == 2

MaxEntries == 2

(***************************************************************************)
(* Characters and strings.                                                 *)
(***************************************************************************)
\* the printable ASCII characters 32..95 and 97..126, in code point order
PrintableLow ==
  <<" ", "!", "\"", "#", "$", "%", "&", "'", "(", ")", "*", "+", ",",
    "-", ".", "/", "0", "1", "2", "3", "4", "5", "6", "7", "8", "9", ":",
    ";", "<", "=", ">", "?", "@", "A", "B", "C", "D", "E", "F", "G", "H",
    "I", "J", "K", "L", "M", "N", "O", "P", "Q", "R", "S", "T", "U", "V",
    "W", "X", "Y", "Z", "[", "\\", "]", "^", "_">>

PrintableHigh ==
  <<"a", "b", "c", "d", "e", "f", "g", "h", "i", "j", "k", "l", "m", "n",
    "o", "p", "q", "r", "s", "t", "u", "v", "w", "x", "y", "z", "{", "|",
    "}", "~">>

Lower == <<"a", "b", "c", "d", "e", "f", "g", "h", "i", "j", "k", "l", "m",
           "n", "o", "p", "q", "r", "s", "t", "u", "v", "w", "x", "y", "z">>

Capital == <<"A", "B", "C", "D", "E", "F", "G", "H", "I", "J", "K", "L", "M",
             "N", "O", "P", "Q", "R", "S", "T", "U", "V", "W", "X", "Y", "Z">>

NL == "\n"

Range(s) == {s[i] : i \in 1..Len(s)}

\* ord(c) of a printable ASCII character; the newline is below all of them
Chars == Range(PrintableLow) \cup Range(PrintableHigh) \cup {NL}

OrdTable ==
  [c \in Chars |->
     IF c = NL THEN 10
     ELSE IF c \in Range(PrintableLow)
          THEN 31 + (CHOOSE i \in 1..Len(PrintableLow) : PrintableLow[i] = c)
          ELSE 96 + (CHOOSE i \in 1..Len(PrintableHigh) : PrintableHigh[i] = c)]

Ord(c) == OrdTable[c]

\* str.upper() on one character
UpperTable ==
  [c \in Chars |->
     IF c \in Range(Lower) THEN Capital[CHOOSE i \in 1..Len(Lower) : Lower[i] = c] ELSE c]

UpperChar(c) == UpperTable[c]

\* str.upper()
RECURSIVE Upper(_)
Upper(s) == IF s = <<>> THEN <<>> ELSE <<UpperChar(Head(s))>> \o Upper(Tail(s))

\* t in s: the leftmost-first scan for the substring t
RECURSIVE StrIn(_, _)
StrIn(t, s) ==
  IF Len(t) > Len(s) THEN FALSE
  ELSE IF SubSeq(s, 1, Len(t)) = t THEN TRUE
  ELSE StrIn(t, Tail(s))

\* s.split(sep) for a one-character sep: the list of the pieces between the seps
RECURSIVE SplitFrom(_, _, _, _)
SplitFrom(s, sep, i, piece) ==
  IF i > Len(s) THEN <<piece>>
  ELSE IF s[i] = sep THEN <<piece>> \o SplitFrom(s, sep, i + 1, <<>>)
  ELSE SplitFrom(s, sep, i + 1, Append(piece, s[i]))

Split(s, sep) == SplitFrom(s, sep, 1, <<>>)

\* a < b on str: code point order, a proper prefix first
RECURSIVE StrLess(_, _)
StrLess(a, b) ==
  IF Len(b) = 0 THEN FALSE
  ELSE IF Len(a) = 0 THEN TRUE
  ELSE IF Head(a) = Head(b) THEN StrLess(Tail(a), Tail(b))
  ELSE Ord(Head(a)) < Ord(Head(b))

\* sorted(keys): insertion into an ascending list
RECURSIVE InsertSorted(_, _)
InsertSorted(k, l) ==
  IF l = <<>> THEN <<k>>
  ELSE IF StrLess(k, Head(l)) THEN <<k>> \o l
  ELSE <<Head(l)>> \o InsertSorted(k, Tail(l))

RECURSIVE Sorted(_)
Sorted(l) == IF l = <<>> THEN <<>> ELSE InsertSorted(Head(l), Sorted(Tail(l)))

Digits == <<"0", "1", "2", "3", "4", "5", "6", "7", "8", "9">>

\* str(n) for n >= 0
RECURSIVE IntToStr(_)
IntToStr(n) == IF n < 10 THEN <<Digits[n + 1]>> ELSE IntToStr(n \div 10) \o <<Digits[(n % 10) + 1]>>

(***************************************************************************)
(* dict: entries [key, value] in insertion order.                          *)
(***************************************************************************)
RECURSIVE DictKeys(_)
DictKeys(d) == IF d = <<>> THEN <<>> ELSE <<Head(d).key>> \o DictKeys(Tail(d))

DictHas(d, k) == \E i \in 1..Len(d) : d[i].key = k

DictGet(d, k) == d[CHOOSE i \in 1..Len(d) : d[i].key = k].value

\* d[k] = v: the value of an existing key is replaced, a new key goes last
DictSet(d, k, v) ==
  IF DictHas(d, k)
  THEN LET i == CHOOSE j \in 1..Len(d) : d[j].key = k
       IN  SubSeq(d, 1, i - 1) \o <<[key |-> k, value |-> v]>> \o SubSeq(d, i + 1, Len(d))
  ELSE Append(d, [key |-> k, value |-> v])

\* obj.get(k, default) on a JSON object
Get(obj, k, default) == IF k \in DOMAIN obj THEN obj[k] ELSE default

(***************************************************************************)
(* String literals of the code.                                            *)
(***************************************************************************)
PPO == <<"P", "P", "O">>

NEW_YORK == <<"N", "E", "W", " ", "Y", "O", "R", "K">>

SP_NY_SP == <<" ", "N", "Y", " ">>

SP_NY_COLON == <<" ", "N", "Y", ":">>

US_NY_US == <<"_", "N", "Y", "_">>

PAREN_NY == <<"(", "N", "Y", ")">>

HIGHMARK == <<"H", "I", "G", "H", "M", "A", "R", "K">>

NY == <<"N", "Y">>

EXCELLUS == <<"E", "X", "C", "E", "L", "L", "U", "S">>

(***************************************************************************)
(* extract_file_id                                                         *)
(***************************************************************************)
\* extract_file_id with the query string left in
extract_file_id_with_query(url) ==
  LET segments == Split(url, "/")
  IN  segments[Len(segments)]

extract_file_id(url) ==
  LET base == Split(url, "?")[1]
      segments == Split(base, "/")
  IN  segments[Len(segments)]

(***************************************************************************)
(* is_ny_ppo_network                                                       *)
(***************************************************************************)
ny_indicators == <<NEW_YORK, SP_NY_SP, SP_NY_COLON, US_NY_US, PAREN_NY>>

is_ppo(desc_upper) == StrIn(PPO, desc_upper)

\* is_ny from the delimited indicators alone
is_ny_indicators_only(desc_upper) ==
  \E i \in 1..Len(ny_indicators) : StrIn(ny_indicators[i], desc_upper)

is_ny(desc_upper) ==
  \/ \E i \in 1..Len(ny_indicators) : StrIn(ny_indicators[i], desc_upper)
  \/ StrIn(HIGHMARK, desc_upper) /\ StrIn(NY, desc_upper)

is_excellus_ppo(desc_upper) == StrIn(EXCELLUS, desc_upper) /\ is_ppo(desc_upper)

\* the condition with "and" for its "or"
MatchesBoth(file_info) ==
  LET desc_upper == Upper(Get(file_info, "description", <<>>))
  IN  (is_ppo(desc_upper) /\ is_ny(desc_upper)) /\ is_excellus_ppo(desc_upper)

\* the condition of the if on one file_info
Matches(file_info) ==
  LET desc_upper == Upper(Get(file_info, "description", <<>>))
  IN  (is_ppo(desc_upper) /\ is_ny(desc_upper)) \/ is_excellus_ppo(desc_upper)

\* the dict with the whole location as its file_id
MatchingFileByUrl(file_info) ==
  LET description == Get(file_info, "description", <<>>)
      location == Get(file_info, "location", <<>>)
  IN  [url |-> location, description |-> description, file_id |-> location]

\* the dict appended for a matching file_info
MatchingFile(file_info) ==
  LET description == Get(file_info, "description", <<>>)
      location == Get(file_info, "location", <<>>)
  IN  [url |-> location, description |-> description, file_id |-> extract_file_id(location)]

\* the for loop over in_network_files, from the matching_files built so far
RECURSIVE CollectMatching(_, _)
CollectMatching(files, acc) ==
  IF files = <<>> THEN acc
  ELSE CollectMatching(Tail(files),
                       IF Matches(Head(files)) THEN Append(acc, MatchingFile(Head(files))) ELSE acc)

is_ny_ppo_network(files) ==
  LET matched == CollectMatching(files, <<>>)
  IN  <<Len(matched) > 0, matched>>

(***************************************************************************)
(* main: the aggregation loop                                              *)
(***************************************************************************)
\* if network not in file_ids_by_network: file_ids_by_network[network] = {}
EnsureNetwork(by_network, network) ==
  IF ~DictHas(by_network, network) THEN DictSet(by_network, network, <<>>) ELSE by_network

\* files[file_id] = url without the test: the last URL seen is kept
StoreUrlLast(files, file_id, url) == DictSet(files, file_id, url)

\* every URL seen is added without the test
StoreUrlNoDedup(files, file_id, url) == Append(files, [key |-> file_id, value |-> url])

\* if file_id not in files: files[file_id] = url
StoreUrl(files, file_id, url) ==
  IF ~DictHas(files, file_id) THEN DictSet(files, file_id, url) ELSE files

\* the body of the loop over matching_files, for one f
AddFile(by_network, f) ==
  LET network == f.description
      file_id == f.file_id
      url == f.url
      ensured == EnsureNetwork(by_network, network)
  IN  DictSet(ensured, network, StoreUrl(DictGet(ensured, network), file_id, url))

RECURSIVE AddFiles(_, _)
AddFiles(by_network, matched) ==
  IF matched = <<>> THEN by_network
  ELSE AddFiles(AddFile(by_network, Head(matched)), Tail(matched))

\* if is_match: the loop over matching_files
AggregateFound(by_network, found) ==
  IF found[1] THEN AddFiles(by_network, found[2]) ELSE by_network

\* the body of the loop over the stream for one JSON object, after processed += 1
Aggregate(by_network, obj) ==
  AggregateFound(by_network, is_ny_ppo_network(Get(obj, "in_network_files", <<>>)))

\* total_unique_files
RECURSIVE SumLen(_)
SumLen(by_network) ==
  IF by_network = <<>> THEN 0 ELSE Len(Head(by_network).value) + SumLen(Tail(by_network))

total_unique_files(by_network) == SumLen(by_network)

\* all_file_ids
all_file_ids(by_network) ==
  UNION {Range(DictKeys(by_network[i].value)) : i \in 1..Len(by_network)}

(***************************************************************************)
(* main: the report                                                        *)
(***************************************************************************)
RECURSIVE Concat(_)
Concat(strs) == IF strs = <<>> THEN <<>> ELSE Head(strs) \o Concat(Tail(strs))

\* f.write(f"# {network} ({len(files)} files)\n")
HeaderWrite(network, files) ==
  <<"#", " ">> \o network \o <<" ", "(">> \o IntToStr(Len(files))
    \o <<" ", "f", "i", "l", "e", "s", ")", NL>>

\* the file_ids in the order of their URLs
FileOrderByUrl(files) ==
  LET by_url == Sorted([i \in 1..Len(files) |-> files[i].value])
  IN  [i \in 1..Len(by_url) |->
         files[CHOOSE k \in 1..Len(files) : files[k].value = by_url[i]].key]

\* the order in which the URLs of one network are written
FileOrder(files) == Sorted(DictKeys(files))

\* the order in which the networks are written
NetworkOrder(by_network) == Sorted(DictKeys(by_network))

\* the writes of the inner loop: f.write(f"{url}\n") per file_id
RECURSIVE UrlWritesFrom(_, _)
UrlWritesFrom(files, order) ==
  IF order = <<>> THEN <<>>
  ELSE <<DictGet(files, Head(order)) \o <<NL>>>> \o UrlWritesFrom(files, Tail(order))

UrlWrites(files) == UrlWritesFrom(files, FileOrder(files))

\* the writes for one network: header, URLs, blank line
BlockWrites(network, files) == <<HeaderWrite(network, files)>> \o UrlWrites(files) \o << <<NL>> >>

RECURSIVE BlocksFrom(_, _)
BlocksFrom(by_network, order) ==
  IF order = <<>> THEN <<>>
  ELSE BlockWrites(Head(order), DictGet(by_network, Head(order)))
         \o BlocksFrom(by_network, Tail(order))

\* every f.write of the with block, in order
Writes(by_network) == BlocksFrom(by_network, NetworkOrder(by_network))

(***************************************************************************)
(* The inputs of the model: descriptions, URLs, file entries, stream items.*)
(***************************************************************************)
DescEmpire == <<"E", "m", "p", "i", "r", "e", " ", "P", "P", "O">>

DescExcellus ==
  <<"E", "x", "c", "e", "l", "l", "u", "s", " ", "B", "C", "B", "S", " ", "P", "P", "O">>

DescCalifornia == <<"C", "a", "l", "i", "f", "o", "r", "n", "i", "a", " ", "P", "P", "O">>

DescHighmark ==
  <<"H", "i", "g", "h", "m", "a", "r", "k", " ", "B", "l", "u", "e", " ", "S", "h", "i",
    "e", "l", "d", " ", "o", "f", " ", "N", "o", "r", "t", "h", "e", "a", "s", "t", "e",
    "r", "n", " ", "N", "Y", " ", "P", "P", "O">>

DescSunny == <<"S", "u", "n", "n", "y", " ", "H", "e", "a", "l", "t", "h", " ", "P", "P", "O">>

DescHighmarkSunny ==
  <<"H", "i", "g", "h", "m", "a", "r", "k", " ", "S", "u", "n", "n", "y", " ", "p", "p",
    "o">>

DescNewYorkLower == <<"n", "e", "w", " ", "y", "o", "r", "k", " ", "p", "p", "o">>

DescNyHmo == <<"E", "m", "p", "i", "r", "e", " ", "N", "Y", " ", "H", "M", "O">>

DescNyColon == <<"P", "l", "a", "n", " ", "N", "Y", ":", " ", "P", "P", "O">>

DescNyUnderscore == <<"P", "P", "O", "_", "N", "Y", "_", "1">>

DescNyParen == <<"P", "p", "o", " ", "(", "n", "y", ")">>

DescExcellusHmo == <<"E", "x", "c", "e", "l", "l", "u", "s", " ", "H", "M", "O">>

DescNyMid == <<"A", "n", "t", "h", "e", "m", " ", "N", "Y", " ", "P", "P", "O">>

DescHighmarkOnly == <<"H", "i", "g", "h", "m", "a", "r", "k", " ", "P", "P", "O">>

UrlCdn1 ==
  <<"h", "t", "t", "p", "s", ":", "/", "/", "c", "d", "n", "1", ".", "e", "x", "a", "m",
    "p", "l", "e", "/", "X", "/", "f", "i", "l", "e", "1", "2", "3", ".", "j", "s", "o",
    "n", ".", "g", "z", "?", "s", "i", "g", "=", "a", "b", "c">>

UrlCdn2 ==
  <<"h", "t", "t", "p", "s", ":", "/", "/", "c", "d", "n", "2", ".", "e", "x", "a", "m",
    "p", "l", "e", "/", "Y", "/", "f", "i", "l", "e", "1", "2", "3", ".", "j", "s", "o",
    "n", ".", "g", "z", "?", "s", "i", "g", "=", "d", "e", "f">>

FileId123 == <<"f", "i", "l", "e", "1", "2", "3", ".", "j", "s", "o", "n", ".", "g", "z">>

DescHighmarkNy == <<"H", "i", "g", "h", "m", "a", "r", "k", " ", "N", "Y", " ", "P", "P", "O">>

UrlA ==
  <<"h", "t", "t", "p", "s", ":", "/", "/", "a", ".", "i", "o", "/", "X", "/", "f", "1",
    ".", "g", "z", "?", "s", "=", "1">>

UrlB ==
  <<"h", "t", "t", "p", "s", ":", "/", "/", "b", ".", "i", "o", "/", "Y", "/", "f", "1",
    ".", "g", "z", "?", "s", "=", "2">>

UrlC ==
  <<"h", "t", "t", "p", "s", ":", "/", "/", "a", ".", "i", "o", "/", "X", "/", "f", "2",
    ".", "g", "z">>

FileEntry(description, location) == [description |-> description, location |-> location]

\* sequences of at most n elements of S
SeqUpTo(S, n) == UNION {[1..k -> S] : k \in 0..n}

\* the file entries of the streaming pass
MainEntries ==
  {FileEntry(DescExcellus, UrlA), FileEntry(DescExcellus, UrlB), FileEntry(DescExcellus, UrlC)}

\* a record of a second network, with an entry that does not match
HighmarkRecord ==
  [in_network_files |-> <<FileEntry(DescHighmarkNy, UrlB), FileEntry(DescCalifornia, UrlC)>>]

\* the record of the Empire scenario
EmpireRecord ==
  [in_network_files |-> <<FileEntry(DescEmpire, UrlCdn1), FileEntry(DescEmpire, UrlCdn2)>>]

\* an element of reporting_structure: a JSON object with its members, or a JSON number
JsonObject(members) == [type |-> "object", members |-> members]

JsonNumber == [type |-> "number"]

Items ==
  {JsonObject([in_network_files |-> files]) : files \in SeqUpTo(MainEntries, MaxEntries)}
    \cup {JsonObject(EmpireRecord), JsonObject(HighmarkRecord),
          JsonObject([reporting_plans |-> <<>>]), JsonNumber}

\* before the first iteration the loop variable is unbound
NoItem == [type |-> "unbound"]

(***************************************************************************)
(* The run of main over the stream of stream_index_file.                   *)
(***************************************************************************)
Init ==
  /\ pc = "start"
  /\ response = "unopened"
  /\ gz_file = "unopened"
  /\ closed = <<>>
  /\ processed = 0
  /\ file_ids_by_network = <<>>
  /\ item = NoItem
  /\ repeat = FALSE
  /\ in_network_files = <<>>
  /\ is_match = FALSE
  /\ matching_files = <<>>
  /\ file_ids = <<>>
  /\ output_opened = FALSE
  /\ output = <<>>
  /\ failure = "none"

\* urllib.request.urlopen(url) returns the response
UrlOpen ==
  /\ pc = "start"
  /\ response' = "open"
  /\ pc' = "opened"
  /\ UNCHANGED <<gz_file, closed, processed, file_ids_by_network, item, repeat, in_network_files,
                 is_match, matching_files, file_ids, output_opened, output, failure>>

\* urlopen raises: no handle was opened, the exception leaves main
UrlOpenFails ==
  /\ pc = "start"
  /\ failure' = "FetchError"
  /\ pc' = "failed"
  /\ UNCHANGED <<response, gz_file, closed, processed, file_ids_by_network, item, repeat,
                 in_network_files, is_match, matching_files, file_ids, output_opened, output>>

\* gzip.GzipFile(fileobj=response) and ijson.items(...)
GzipOpen ==
  /\ pc = "opened"
  /\ gz_file' = "open"
  /\ pc' = "parsing"
  /\ UNCHANGED <<response, closed, processed, file_ids_by_network, item, repeat, in_network_files,
                 is_match, matching_files, file_ids, output_opened, output, failure>>

\* the parser produces the next item and the generator yields it to main
Yield ==
  /\ pc = "parsing"
  /\ processed < MaxRecords
  /\ \E it \in Items :
       /\ item' = it
       /\ repeat' = (it = item)
  /\ pc' = "consuming"
  /\ UNCHANGED <<response, gz_file, closed, processed, file_ids_by_network, in_network_files,
                 is_match, matching_files, file_ids, output_opened, output, failure>>

\* reading, decompressing or parsing raises inside the with blocks
ParseFails ==
  /\ pc = "parsing"
  /\ failure' = "ParseError"
  /\ pc' = "exit_gz"
  /\ UNCHANGED <<response, gz_file, closed, processed, file_ids_by_network, item, repeat,
                 in_network_files, is_match, matching_files, file_ids, output_opened, output>>

\* the parser is exhausted: the for loop of the generator ends
Exhausted ==
  /\ pc = "parsing"
  /\ pc' = "exit_gz"
  /\ UNCHANGED <<response, gz_file, closed, processed, file_ids_by_network, item, repeat,
                 in_network_files, is_match, matching_files, file_ids, output_opened, output,
                 failure>>

\* the body of the for loop of main on a JSON object
Consume ==
  /\ pc = "consuming"
  /\ item.type = "object"
  /\ processed' = processed + 1
  /\ in_network_files' = Get(item.members, "in_network_files", <<>>)
  /\ is_match' = is_ny_ppo_network(in_network_files')[1]
  /\ matching_files' = is_ny_ppo_network(in_network_files')[2]
  /\ file_ids_by_network' = Aggregate(file_ids_by_network, item.members)
  /\ pc' = "parsing"
  /\ UNCHANGED <<response, gz_file, closed, item, repeat, file_ids, output_opened, output, failure>>

\* the exception leaves main and the generator is never finalized
MainRaisesNoFinalize ==
  /\ pc = "consuming"
  /\ item.type # "object"
  /\ processed' = processed + 1
  /\ failure' = "AttributeError"
  /\ pc' = "failed"
  /\ UNCHANGED <<response, gz_file, closed, file_ids_by_network, item, repeat,
                 in_network_files, is_match, matching_files, file_ids, output_opened, output>>

\* item.get raises AttributeError on an item that is no JSON object; the exception
\* leaves the loop, the generator is finalized and GeneratorExit is raised at its yield
MainRaises ==
  /\ pc = "consuming"
  /\ item.type # "object"
  /\ processed' = processed + 1
  /\ failure' = "AttributeError"
  /\ pc' = "exit_gz"
  /\ UNCHANGED <<response, gz_file, closed, file_ids_by_network, item, repeat, in_network_files,
                 is_match, matching_files, file_ids, output_opened, output>>

\* __exit__ of the inner with: gz_file.close()
CloseGz ==
  /\ pc = "exit_gz"
  /\ gz_file' = "closed"
  /\ closed' = Append(closed, "gz_file")
  /\ pc' = "exit_response"
  /\ UNCHANGED <<response, processed, file_ids_by_network, item, repeat, in_network_files, is_match,
                 matching_files, file_ids, output_opened, output, failure>>

\* response.close(), and main goes on to the report whatever was raised
CloseResponseSwallows ==
  /\ pc = "exit_response"
  /\ response' = "closed"
  /\ closed' = Append(closed, "response")
  /\ pc' = "summary"
  /\ UNCHANGED <<gz_file, processed, file_ids_by_network, item, repeat, in_network_files,
                 is_match, matching_files, file_ids, output_opened, output, failure>>

\* __exit__ of the outer with: response.close(); then the loop of main is over,
\* or the pending exception leaves main
CloseResponse ==
  /\ pc = "exit_response"
  /\ response' = "closed"
  /\ closed' = Append(closed, "response")
  /\ pc' = IF failure = "none" THEN "summary" ELSE "failed"
  /\ UNCHANGED <<gz_file, processed, file_ids_by_network, item, repeat, in_network_files, is_match,
                 matching_files, file_ids, output_opened, output, failure>>

\* open(args.output, 'w') creates or truncates the file
OpenOutput ==
  /\ pc = "summary"
  /\ output_opened' = TRUE
  /\ output' = <<>>
  /\ pc' = "writing"
  /\ UNCHANGED <<response, gz_file, closed, processed, file_ids_by_network, item, repeat,
                 in_network_files, is_match, matching_files, file_ids, failure>>

\* open(args.output, 'w') raises
OpenOutputFails ==
  /\ pc = "summary"
  /\ failure' = "WriteError"
  /\ pc' = "failed"
  /\ UNCHANGED <<response, gz_file, closed, processed, file_ids_by_network, item, repeat,
                 in_network_files, is_match, matching_files, file_ids, output_opened, output>>

\* the body of the with block of the writer, and its close
WriteReport ==
  /\ pc = "writing"
  /\ output' = Concat(Writes(file_ids_by_network))
  /\ pc' = "done"
  /\ UNCHANGED <<response, gz_file, closed, processed, file_ids_by_network, item, repeat,
                 in_network_files, is_match, matching_files, file_ids, output_opened, failure>>

\* a write raises after k of the writes: what was written stays
WriteFails ==
  /\ pc = "writing"
  /\ \E k \in 0..(Len(Writes(file_ids_by_network)) - 1) :
       output' = Concat(SubSeq(Writes(file_ids_by_network), 1, k))
  /\ failure' = "WriteError"
  /\ pc' = "failed"
  /\ UNCHANGED <<response, gz_file, closed, processed, file_ids_by_network, item, repeat,
                 in_network_files, is_match, matching_files, file_ids, output_opened>>

Next ==
  \/ UrlOpen
  \/ UrlOpenFails
  \/ GzipOpen
  \/ Yield
  \/ ParseFails
  \/ Exhausted
  \/ Consume
  \/ MainRaises
  \/ CloseGz
  \/ CloseResponse
  \/ OpenOutput
  \/ OpenOutputFails
  \/ WriteReport
  \/ WriteFails

Spec == Init /\ [][Next]_vars

(***************************************************************************)
(* The predicate pass: one call of is_ny_ppo_network on a list of entries. *)
(***************************************************************************)
DescSunnyExcellus == <<"S", "u", "n", "n", "y", " ", "E", "x", "c", "e", "l", "l", "u", "s", " ", "P", "P", "O">>

PredDescriptions ==
  {DescEmpire, DescExcellus, DescCalifornia, DescHighmark, DescSunny, DescHighmarkSunny,
   DescNewYorkLower, DescNyHmo, DescNyColon, DescNyUnderscore, DescNyParen, DescExcellusHmo,
   DescNyMid, DescHighmarkOnly, DescSunnyExcellus}

\* entries with every description, and entries without a description or a location
PredEntries ==
  {FileEntry(d, UrlA) : d \in PredDescriptions}
    \cup {[location |-> UrlB], [description |-> DescExcellus]}

InitPred ==
  /\ pc = "pred_call"
  /\ in_network_files \in SeqUpTo(PredEntries, MaxEntries)
  /\ is_match = FALSE
  /\ matching_files = <<>>
  /\ response = "unopened"
  /\ gz_file = "unopened"
  /\ closed = <<>>
  /\ processed = 0
  /\ file_ids_by_network = <<>>
  /\ item = NoItem
  /\ repeat = FALSE
  /\ file_ids = <<>>
  /\ output_opened = FALSE
  /\ output = <<>>
  /\ failure = "none"

CallIsNyPpoNetwork ==
  /\ pc = "pred_call"
  /\ is_match' = is_ny_ppo_network(in_network_files)[1]
  /\ matching_files' = is_ny_ppo_network(in_network_files)[2]
  /\ pc' = "pred_return"
  /\ UNCHANGED <<response, gz_file, closed, processed, file_ids_by_network, item, repeat,
                 in_network_files, file_ids, output_opened, output, failure>>

NextPred == CallIsNyPpoNetwork

SpecPred == InitPred /\ [][NextPred]_vars

(***************************************************************************)
(* The file identity pass: extract_file_id on the locations of two         *)
(* matching entries, then the aggregation loop on the record holding them. *)
(***************************************************************************)
Scheme == <<"h", "t", "t", "p", "s", ":", "/", "/">>

Hosts == {<<"a", ".", "i", "o">>, <<"b", ".", "i", "o">>}

\* the path of a URL: none, the root, a file, a file or nothing below a directory
Paths ==
  {<<>>, <<"/">>, <<"/", "f", "1", ".", "g", "z">>,
   <<"/", "X", "/", "f", "1", ".", "g", "z">>, <<"/", "Y", "/", "f", "1", ".", "g", "z">>,
   <<"/", "X", "/", "f", "2", ".", "g", "z">>, <<"/", "X", "/">>}

\* the query of a URL: none, a signature, a value holding a path separator
Queries == {<<>>, <<"?", "s", "=", "1">>, <<"?", "r", "=", "/", "d">>}

Urls == {Scheme \o h \o p \o q : h \in Hosts, p \in Paths, q \in Queries}

InitUrl ==
  /\ pc = "url_call"
  /\ in_network_files \in
       {<<FileEntry(d1, u1), FileEntry(d2, u2)>> :
          d1 \in {DescExcellus}, d2 \in {DescExcellus, DescHighmarkNy}, u1 \in Urls, u2 \in Urls}
  /\ is_match = FALSE
  /\ matching_files = <<>>
  /\ response = "unopened"
  /\ gz_file = "unopened"
  /\ closed = <<>>
  /\ processed = 0
  /\ file_ids_by_network = <<>>
  /\ item = NoItem
  /\ repeat = FALSE
  /\ file_ids = <<>>
  /\ output_opened = FALSE
  /\ output = <<>>
  /\ failure = "none"

ExtractFileIds ==
  /\ pc = "url_call"
  /\ file_ids' = [i \in 1..Len(in_network_files) |-> extract_file_id(in_network_files[i].location)]
  /\ pc' = "url_ids"
  /\ UNCHANGED <<response, gz_file, closed, processed, file_ids_by_network, item, repeat,
                 in_network_files, is_match, matching_files, output_opened, output, failure>>

AggregatePair ==
  /\ pc = "url_ids"
  /\ file_ids_by_network' = Aggregate(file_ids_by_network, [in_network_files |-> in_network_files])
  /\ pc' = "url_fed"
  /\ UNCHANGED <<response, gz_file, closed, processed, item, repeat, in_network_files, is_match,
                 matching_files, file_ids, output_opened, output, failure>>

NextUrl == ExtractFileIds \/ AggregatePair

SpecUrl == InitUrl /\ [][NextUrl]_vars

(***************************************************************************)
(* The properties, stated apart from the operators that model the code.    *)
(***************************************************************************)
\* t occurs in s as a substring
HasSub(t, s) == \E i \in 0..(Len(s) - Len(t)) : \A k \in 1..Len(t) : s[i + k] = t[k]

DescriptionOf(entry) == IF "description" \in DOMAIN entry THEN entry.description ELSE <<>>

LocationOf(entry) == IF "location" \in DOMAIN entry THEN entry.location ELSE <<>>

\* the plan type, region and named affiliate rules on the upper-cased description
PlanType(d) == HasSub(PPO, d)

Region(d) ==
  \/ HasSub(NEW_YORK, d)
  \/ HasSub(SP_NY_SP, d)
  \/ HasSub(SP_NY_COLON, d)
  \/ HasSub(US_NY_US, d)
  \/ HasSub(PAREN_NY, d)
  \/ (HasSub(HIGHMARK, d) /\ HasSub(NY, d))

NamedAffiliatePlanType(d) == HasSub(EXCELLUS, d) /\ PlanType(d)

EntryMatches(entry) ==
  LET d == Upper(DescriptionOf(entry))
  IN  (PlanType(d) /\ Region(d)) \/ NamedAffiliatePlanType(d)

\* the file identity of a URL: everything from the first "?" on is stripped, and
\* what follows the last "/" of the rest is kept
QueryStart(u) ==
  IF \E i \in 1..Len(u) : u[i] = "?"
  THEN CHOOSE i \in 1..Len(u) : u[i] = "?" /\ \A k \in 1..(i - 1) : u[k] # "?"
  ELSE Len(u) + 1

Base(u) == SubSeq(u, 1, QueryStart(u) - 1)

AfterLastSlash(b) ==
  IF \E i \in 1..Len(b) : b[i] = "/"
  THEN SubSeq(b, 1 + (CHOOSE i \in 1..Len(b) : b[i] = "/" /\ \A k \in (i + 1)..Len(b) : b[k] # "/"),
              Len(b))
  ELSE b

FileIdentity(u) == AfterLastSlash(Base(u))

\* host and path of a URL that starts with the scheme: the path starts at the first "/"
HostAndPath(u) == SubSeq(Base(u), Len(Scheme) + 1, Len(Base(u)))

HasPath(u) == \E i \in 1..Len(HostAndPath(u)) : HostAndPath(u)[i] = "/"

PathOf(u) ==
  LET hp == HostAndPath(u)
      first == CHOOSE i \in 1..Len(hp) : hp[i] = "/" /\ \A k \in 1..(i - 1) : hp[k] # "/"
  IN  SubSeq(hp, first, Len(hp))

SharesFinalSegment(u1, u2) ==
  HasPath(u1) /\ HasPath(u2) /\ AfterLastSlash(PathOf(u1)) = AfterLastSlash(PathOf(u2))

DiffersOnlyInHostAndQuery(u1, u2) ==
  u1 # u2 /\ HasPath(u1) /\ HasPath(u2) /\ PathOf(u1) = PathOf(u2)

\* the aggregated mapping as pairs
Recorded(by_network, network, file_id) ==
  DictHas(by_network, network) /\ DictHas(DictGet(by_network, network), file_id)

RecordedUrl(by_network, network, file_id) == DictGet(DictGet(by_network, network), file_id)

\* the lines of the written output: a line ends at each newline and starts after the
\* newline before it
LineEnds == {i \in 1..Len(output) : output[i] = NL}

LineEndingAt(e) ==
  LET before == {i \in LineEnds : i < e}
      start == IF before = {} THEN 1
               ELSE 1 + CHOOSE i \in before : \A k \in before : k <= i
  IN  SubSeq(output, start, e - 1)

\* C1: every (network-description, file-identity) pair is recorded at most once in
\* file_ids_by_network, however many mirror URLs referenced it: no network is recorded
\* twice, no file_id twice under a network, no two URLs kept under a network have the
\* same file identity; and in the finished output a kept URL is one line per network
\* that holds it.
C1_PairAtMostOnce ==
  /\ \A m, n \in 1..Len(file_ids_by_network) :
       m # n => file_ids_by_network[m].key # file_ids_by_network[n].key
  /\ \A n \in 1..Len(file_ids_by_network) :
       LET files == file_ids_by_network[n].value
       IN  \A i, j \in 1..Len(files) :
             i # j => /\ files[i].key # files[j].key
                      /\ FileIdentity(files[i].value) # FileIdentity(files[j].value)
  /\ pc = "done" =>
       \A n \in 1..Len(file_ids_by_network) :
         \A i \in 1..Len(file_ids_by_network[n].value) :
           LET u == file_ids_by_network[n].value[i].value
           IN  Cardinality({e \in LineEnds : LineEndingAt(e) = u})
                 = Cardinality({m \in 1..Len(file_ids_by_network) :
                                  \E j \in 1..Len(file_ids_by_network[m].value) :
                                    file_ids_by_network[m].value[j].value = u})

\* C1 witness: the record just consumed held two matching entries of one network with
\* the same file identity and different URLs, and the run finished with one of them.
C1_Witness ==
  /\ pc = "done"
  /\ item.type = "object"
  /\ LET files == Get(item.members, "in_network_files", <<>>)
     IN  \E i, j \in 1..Len(files) :
           /\ i # j
           /\ EntryMatches(files[i]) /\ EntryMatches(files[j])
           /\ files[i].description = files[j].description
           /\ files[i].location # files[j].location
           /\ FileIdentity(files[i].location) = FileIdentity(files[j].location)
           /\ Recorded(file_ids_by_network, files[i].description,
                       FileIdentity(files[i].location))

Retained(by_network, us) ==
  {u \in us : \E n \in 1..Len(by_network) :
                \E i \in 1..Len(by_network[n].value) : by_network[n].value[i].value = u}

\* C3 as claimed: two URLs that differ in host and query string only (here with a
\* file name as their final path segment) get the same file identity, and when both
\* are fed as matching entries the aggregator keeps exactly one of them.
C3_AsClaimed ==
  pc = "url_fed" =>
    LET e1 == in_network_files[1]
        e2 == in_network_files[2]
    IN  (/\ DiffersOnlyInHostAndQuery(e1.location, e2.location)
         /\ AfterLastSlash(PathOf(e1.location)) # <<>>
         /\ EntryMatches(e1) /\ EntryMatches(e2))
          => /\ file_ids[1] = file_ids[2]
             /\ Cardinality(Retained(file_ids_by_network, {e1.location, e2.location})) = 1

\* C3 amended: two URLs that share the final path segment get the same file identity
\* from extract_file_id, whatever their hosts and query strings; and when both are fed
\* as matching entries of the same network-description, the aggregator keeps exactly
\* one URL across both, that of the first.
C3_SameNetwork ==
  LET e1 == in_network_files[1]
      e2 == in_network_files[2]
  IN  /\ (pc \in {"url_ids", "url_fed"} /\ SharesFinalSegment(e1.location, e2.location))
           => /\ file_ids[1] = file_ids[2]
              /\ file_ids[1] = AfterLastSlash(PathOf(e1.location))
      /\ (/\ pc = "url_fed"
          /\ SharesFinalSegment(e1.location, e2.location)
          /\ EntryMatches(e1) /\ EntryMatches(e2)
          /\ e1.description = e2.description)
           => /\ Retained(file_ids_by_network, {e1.location, e2.location}) = {e1.location}
              /\ total_unique_files(file_ids_by_network) = 1

\* C3 witness: two entries of one network whose URLs differ in host and query string
\* only were fed, and one URL is kept.
C3_Witness ==
  /\ pc = "url_fed"
  /\ in_network_files[1].description = in_network_files[2].description
  /\ DiffersOnlyInHostAndQuery(in_network_files[1].location, in_network_files[2].location)
  /\ QueryStart(in_network_files[1].location) <= Len(in_network_files[1].location)
  /\ Base(in_network_files[1].location) # Base(in_network_files[2].location)
  /\ total_unique_files(file_ids_by_network) = 1

\* the location of the first entry of files that matches, is described as network and
\* has the file identity file_id
FirstLocation(files, network, file_id) ==
  LET hits == {k \in 1..Len(files) :
                 /\ EntryMatches(files[k])
                 /\ DescriptionOf(files[k]) = network
                 /\ FileIdentity(LocationOf(files[k])) = file_id}
  IN  LocationOf(files[CHOOSE k \in hits : \A h \in hits : k <= h])

HasFirstLocation(files, network, file_id) ==
  \E k \in 1..Len(files) :
    /\ EntryMatches(files[k])
    /\ DescriptionOf(files[k]) = network
    /\ FileIdentity(LocationOf(files[k])) = file_id

\* C4: first-seen policy. A URL recorded for a (network, file identity) pair never
\* changes, and the URL a step records for a new pair is the location of the first
\* matching entry of that pair in the record being consumed.
C4_Step ==
  /\ \A n \in 1..Len(file_ids_by_network) :
       \A i \in 1..Len(file_ids_by_network[n].value) :
         LET network == file_ids_by_network[n].key
             file_id == file_ids_by_network[n].value[i].key
         IN  /\ Recorded(file_ids_by_network', network, file_id)
             /\ RecordedUrl(file_ids_by_network', network, file_id)
                  = file_ids_by_network[n].value[i].value
  /\ \A n \in 1..Len(file_ids_by_network') :
       \A i \in 1..Len(file_ids_by_network'[n].value) :
         LET network == file_ids_by_network'[n].key
             file_id == file_ids_by_network'[n].value[i].key
         IN  ~Recorded(file_ids_by_network, network, file_id)
               => /\ pc = "consuming" /\ item.type = "object"
                  /\ HasFirstLocation(Get(item.members, "in_network_files", <<>>),
                                      network, file_id)
                  /\ file_ids_by_network'[n].value[i].value
                       = FirstLocation(Get(item.members, "in_network_files", <<>>),
                                       network, file_id)

C4_FirstSeen == [][C4_Step]_vars

\* C4 witness: the second record held a mirror URL of a pair the first record had
\* recorded, and the recorded URL is still the first one.
C4_Witness ==
  /\ pc = "parsing"
  /\ processed = 2
  /\ item = JsonObject([in_network_files |-> <<FileEntry(DescExcellus, UrlB)>>])
  /\ Recorded(file_ids_by_network, DescExcellus, FileIdentity(UrlB))
  /\ RecordedUrl(file_ids_by_network, DescExcellus, FileIdentity(UrlB)) = UrlA

\* what is_ny_ppo_network returns on the in_network_files of each record of Items
FoundIn ==
  [it \in {i \in Items : i.type = "object"} |->
     is_ny_ppo_network(Get(it.members, "in_network_files", <<>>))]

\* C5: idempotence. From every aggregator state the run reaches, feeding a record a
\* second time gives the mapping, and the unique file identity counts, that feeding it
\* once gives.
C5_Idempotent ==
  pc = "parsing" =>
    \A it \in DOMAIN FoundIn :
        LET once == AggregateFound(file_ids_by_network, FoundIn[it])
            twice == AggregateFound(once, FoundIn[it])
        IN  /\ twice = once
            /\ total_unique_files(twice) = total_unique_files(once)
            /\ Cardinality(all_file_ids(twice)) = Cardinality(all_file_ids(once))

\* C5 witness: the stream held the same matching record twice in a row and both were
\* consumed.
C5_Witness ==
  /\ pc = "parsing"
  /\ repeat
  /\ processed = 2
  /\ item.type = "object"
  /\ total_unique_files(file_ids_by_network) = 2
  /\ file_ids_by_network = Aggregate(<<>>, item.members)

\* C6: the run over the one record with two "Empire PPO" entries, served from cdn1 and
\* cdn2, ends with exactly one entry, recorded under file123.json.gz.
C6_EmpireScenario ==
  (pc = "done" /\ processed = 1 /\ item = JsonObject(EmpireRecord))
    => /\ Len(file_ids_by_network) = 1
       /\ file_ids_by_network[1].key = DescEmpire
       /\ Len(file_ids_by_network[1].value) = 1
       /\ file_ids_by_network[1].value[1].key = FileId123
       /\ file_ids_by_network[1].value[1].value \in {UrlCdn1, UrlCdn2}

\* the region abbreviation occurs in d, and each occurrence has a letter right before
\* or right after it
IsLetter(c) == c \in Range(Capital)

NyOnlyInsideWord(d) ==
  /\ HasSub(NY, d)
  /\ \A i \in 1..(Len(d) - 1) :
       (d[i] = "N" /\ d[i + 1] = "Y")
         => \/ (i > 1 /\ IsLetter(d[i - 1]))
            \/ (i + 2 <= Len(d) /\ IsLetter(d[i + 2]))

EntryIsMatched(i) ==
  \E j \in 1..Len(matching_files) :
    /\ matching_files[j].description = DescriptionOf(in_network_files[i])
    /\ matching_files[j].url = LocationOf(in_network_files[i])

\* C7 as claimed: a description that holds "PPO" and holds "NY" only inside a word is a
\* match.
C7_AsClaimed ==
  pc = "pred_return" =>
    \A i \in 1..Len(in_network_files) :
      LET d == Upper(DescriptionOf(in_network_files[i]))
      IN  (PlanType(d) /\ NyOnlyInsideWord(d)) => EntryIsMatched(i)

\* C7 amended: a description that holds "PPO" and holds "NY" only inside a word is a
\* match iff it also holds "HIGHMARK", "EXCELLUS" or "NEW YORK": the search for a bare
\* "NY" anywhere in the description is made for Highmark descriptions only.
C7_InsideWord ==
  pc = "pred_return" =>
    \A i \in 1..Len(in_network_files) :
      LET d == Upper(DescriptionOf(in_network_files[i]))
      IN  (PlanType(d) /\ NyOnlyInsideWord(d))
            => (EntryIsMatched(i)
                  <=> (HasSub(HIGHMARK, d) \/ HasSub(EXCELLUS, d) \/ HasSub(NEW_YORK, d)))

\* C7 witness: "Highmark Sunny ppo" was matched and "Sunny Health PPO" was not.
C7_Witness ==
  /\ pc = "pred_return"
  /\ in_network_files = <<FileEntry(DescHighmarkSunny, UrlA), FileEntry(DescSunny, UrlA)>>
  /\ Len(matching_files) = 1
  /\ matching_files[1].description = DescHighmarkSunny

\* a < b in code point order
LexLess(a, b) ==
  \E i \in 1..Len(b) :
    /\ i - 1 <= Len(a)
    /\ \A k \in 1..(i - 1) : a[k] = b[k]
    /\ \/ i = Len(a) + 1
       \/ (i <= Len(a) /\ Ord(a[i]) < Ord(b[i]))

\* the k-th element of the set S of strings in ascending order
NthSmallest(S, k) == CHOOSE x \in S : Cardinality({y \in S : LexLess(y, x)}) = k - 1

RECURSIVE ExpectedUrlLines(_, _)
ExpectedUrlLines(files, k) ==
  IF k > Len(files) THEN <<>>
  ELSE DictGet(files, NthSmallest(Range(DictKeys(files)), k)) \o <<NL>>
         \o ExpectedUrlLines(files, k + 1)

ExpectedBlock(network, files) ==
  <<"#", " ">> \o network \o <<" ", "(">> \o IntToStr(Cardinality(Range(DictKeys(files))))
    \o <<" ", "f", "i", "l", "e", "s", ")", NL>> \o ExpectedUrlLines(files, 1) \o <<NL>>

RECURSIVE ExpectedReport(_, _)
ExpectedReport(by_network, k) ==
  IF k > Len(by_network) THEN <<>>
  ELSE LET network == NthSmallest(Range(DictKeys(by_network)), k)
       IN  ExpectedBlock(network, DictGet(by_network, network))
             \o ExpectedReport(by_network, k + 1)

\* C8: the finished output is one block per network in ascending order of the network
\* description: the header "# <network> (<n> files)" with n the number of file
\* identities of the network, the n URLs in ascending order of file identity, one
\* empty line; with no network the output is empty.
C8_Report ==
  pc = "done" =>
    /\ output_opened
    /\ failure = "none"
    /\ output = ExpectedReport(file_ids_by_network, 1)
    /\ file_ids_by_network = <<>> => output = <<>>

\* C8 witness: a finished run with two networks recorded in descending order, one of
\* them with two files whose URLs are in the opposite order of their file identities.
C8_Witness ==
  /\ pc = "done"
  /\ Len(file_ids_by_network) = 2
  /\ LexLess(file_ids_by_network[2].key, file_ids_by_network[1].key)
  /\ \E n \in 1..2 :
       LET files == file_ids_by_network[n].value
       IN  /\ Len(files) = 2
           /\ \E i, j \in 1..2 :
                /\ LexLess(files[i].key, files[j].key)
                /\ LexLess(files[j].value, files[i].value)

\* C9: the output file is opened only after the whole stream was consumed and both
\* handles were closed; a run that failed in the fetch, in the parse or in the loop
\* of main has neither created nor written it; a finished run has written it; and a
\* failed run takes no further step.
C9_OutputAfterFullPass ==
  /\ output_opened =>
       /\ pc \in {"writing", "done", "failed"}
       /\ failure \in {"none", "WriteError"}
       /\ response = "closed" /\ gz_file = "closed"
  /\ failure \in {"FetchError", "ParseError", "AttributeError"} =>
       /\ ~output_opened
       /\ output = <<>>
  /\ ~output_opened => output = <<>>
  /\ pc = "done" => (output_opened /\ failure = "none")
  /\ pc = "failed" => (failure # "none" /\ ~ENABLED Next)

\* C9 witness: the parse failed after a record had been consumed and matched; the run
\* is over and the output file was not touched.
C9_Witness ==
  /\ pc = "failed"
  /\ failure = "ParseError"
  /\ processed >= 1
  /\ file_ids_by_network # <<>>
  /\ ~output_opened

\* C10: before the fetch no handle is open; once the pass is over, on every exit path,
\* both handles are closed, the decompression handle first, unless the fetch failed
\* and no handle was ever opened.
C10_HandlesReleased ==
  /\ pc = "start" => (response = "unopened" /\ gz_file = "unopened" /\ closed = <<>>)
  /\ pc \in {"summary", "writing", "done", "failed"} =>
       \/ /\ response = "closed" /\ gz_file = "closed"
          /\ closed = <<"gz_file", "response">>
       \/ /\ failure = "FetchError"
          /\ response = "unopened" /\ gz_file = "unopened" /\ closed = <<>>
  /\ gz_file = "open" => response = "open"
  /\ closed \in {<<>>, <<"gz_file">>, <<"gz_file", "response">>}

\* C10 witness: main raised on an item while the generator was suspended at its yield,
\* and the run ended with both handles closed in order.
C10_Witness ==
  /\ pc = "failed"
  /\ failure = "AttributeError"
  /\ closed = <<"gz_file", "response">>

====
